---- MODULE Spec2Model ----
(***************************************************************************)
(* The Synacor virtual machine of zargony/synacor-challenge: the bounded   *)
(* memory (src/src/memory.rs), the operand and instruction decoder and the *)
(* fetch-decode-execute loop (src/src/vm.rs).                              *)
(*                                                                         *)
(* A panic of the Rust program is modelled by the variable fault: it holds *)
(* the panic's kind, the other variables hold what the VM held when the    *)
(* panic unwound, and no further step is taken.                            *)
(***************************************************************************)
EXTENDS Integers, Sequences, FiniteSets, TLC

VARIABLES
    stream,           \* the bytes Memory::load reads (<<>> when the memory is
                      \* handed to VM::new as it is)
    image,            \* the memory as Memory::load built it
    mem,              \* VM.mem: the memory, sparse (see Cell)
    reg,              \* VM.reg
    stack,            \* VM.stack
    ip,               \* VM.ip
    halted,           \* VM.halted
    output,           \* the bytes printed to the standard output
    fault,            \* "none", or the panic that ended the process
    trace,            \* the last step(): the address it fetched at and the
                      \* instruction it decoded (op "none": the fetch panicked)
    prev,             \* the VM as the last step() found it
    steps,            \* the number of step() calls that went on to fetch
    pc,               \* "load" inside Memory::load, "loaded" after it; "run"
                      \* inside run(), "returned" after it
    overflow_checks   \* whether the build panics on integer overflow

vars ==
    <<stream, image, mem, reg, stack, ip, halted, output, fault, trace, prev, steps, pc, overflow_checks>>

-----------------------------------------------------------------------------
(* Bounds of the model *)

\* number of instruction blocks a generated program image is made of
MaxInstrs == 2

\* number of step() calls that fetch an instruction in one run
MaxSteps == 5

\* length of a generated byte stream given to Memory::load
MaxBytes == 4

-----------------------------------------------------------------------------
(* memory.rs *)

MEMORY_SIZE == 32768

LAST_ADDRESS == MEMORY_SIZE - 1

NUM_REGISTERS == 8

\* the values of a u16
U16 == 0 .. 65535

\* Memory([u16; MEMORY_SIZE]) is kept sparse: a function from the addresses
\* of the non-zero cells to their words; every other cell of the array is 0.
Cell(m, addr) == IF addr \in DOMAIN m THEN m[addr] ELSE 0

\* Memory::new: every cell 0
MemoryNew == [a \in {} |-> 0]

\* self.0[addr] = value on the sparse array
Store(m, addr, value) ==
    IF value = 0
    THEN [a \in (DOMAIN m) \ {addr} |-> m[a]]
    ELSE [a \in (DOMAIN m) \cup {addr} |-> IF a = addr THEN value ELSE m[a]]

\* mutant: the bound compared is the size, not the last address
InBoundsOffByOne(addr) == ~(addr > MEMORY_SIZE)

\* the bounds check of Index::index and IndexMut::index_mut
InBounds(addr) == ~(addr > LAST_ADDRESS)

\* mutant: the address is wrapped into the memory instead of checked
IndexWrapped(m, addr) == [fault |-> "none", value |-> Cell(m, addr % MEMORY_SIZE)]

\* Index::index: the word at addr, or the panic
Index(m, addr) ==
    IF InBounds(addr)
    THEN [fault |-> "none", value |-> Cell(m, addr)]
    ELSE [fault |-> "Read memory access out of bounds", value |-> 0]

\* IndexMut::index_mut followed by the assignment: the memory after, or the panic
IndexMut(m, addr, value) ==
    IF InBounds(addr)
    THEN [fault |-> "none", mem |-> Store(m, addr, value)]
    ELSE [fault |-> "Write memory access out of bounds", mem |-> m]

\* mutant: the first byte of a pair is taken for the high byte
RECURSIVE LoadFromBigEndian(_, _, _)
LoadFromBigEndian(m, bytes, addr) ==
    IF Len(bytes) < 2 THEN [fault |-> "none", mem |-> m]
    ELSE LET w == IndexMut(m, addr, bytes[1] * 256 + bytes[2])
         IN  IF w.fault # "none" THEN w
             ELSE LoadFromBigEndian(w.mem, SubSeq(bytes, 3, Len(bytes)), addr + 1)

\* mutant: a last unpaired byte is stored as a word
RECURSIVE LoadFromLoneByte(_, _, _)
LoadFromLoneByte(m, bytes, addr) ==
    IF Len(bytes) = 0 THEN [fault |-> "none", mem |-> m]
    ELSE IF Len(bytes) = 1 THEN IndexMut(m, addr, bytes[1])
    ELSE LET w == IndexMut(m, addr, bytes[2] * 256 + bytes[1])
         IN  IF w.fault # "none" THEN w
             ELSE LoadFromLoneByte(w.mem, SubSeq(bytes, 3, Len(bytes)), addr + 1)

\* Memory::load: pairs of bytes, low byte first, from address 0 on; a last
\* unpaired byte ends the loop without a store
RECURSIVE LoadFrom(_, _, _)
LoadFrom(m, bytes, addr) ==
    IF Len(bytes) = 0 THEN [fault |-> "none", mem |-> m]
    ELSE IF Len(bytes) = 1 THEN [fault |-> "none", mem |-> m]
    ELSE LET lb == bytes[1]
             hb == bytes[2]
             w  == IndexMut(m, addr, hb * 256 + lb)
         IN  IF w.fault # "none" THEN w
             ELSE LoadFrom(w.mem, SubSeq(bytes, 3, Len(bytes)), addr + 1)

Load(bytes) == LoadFrom(MemoryNew, bytes, 0)

-----------------------------------------------------------------------------
(* Bit operations of u16 *)

RECURSIVE BitAnd(_, _, _)
BitAnd(x, y, n) ==
    IF n = 0 THEN 0
    ELSE (IF x % 2 = 1 /\ y % 2 = 1 THEN 1 ELSE 0) + 2 * BitAnd(x \div 2, y \div 2, n - 1)

RECURSIVE BitOr(_, _, _)
BitOr(x, y, n) ==
    IF n = 0 THEN 0
    ELSE (IF x % 2 = 1 \/ y % 2 = 1 THEN 1 ELSE 0) + 2 * BitOr(x \div 2, y \div 2, n - 1)

RECURSIVE BitNot(_, _)
BitNot(x, n) ==
    IF n = 0 THEN 0
    ELSE (IF x % 2 = 1 THEN 0 ELSE 1) + 2 * BitNot(x \div 2, n - 1)

-----------------------------------------------------------------------------
(* memory.rs: Pointer *)

\* Iterator::next of Pointer: the word at ptr (Deref, bounds-checked) and the
\* pointer advanced by one
PointerNext(m, addr) ==
    LET w == Index(m, addr)
    IN  [fault |-> w.fault, value |-> w.value, addr |-> IF w.fault = "none" THEN addr + 1 ELSE addr]

-----------------------------------------------------------------------------
(* vm.rs: Operand *)

Literal(n) == [tag |-> "Literal", n |-> n]

Register(r) == [tag |-> "Register", n |-> r]

InvalidOperand(n) == [tag |-> "Invalid operand", n |-> n]

\* mutant: the first register's word is taken for a literal
OperandFromOffByOne(n) ==
    IF n <= MEMORY_SIZE THEN Literal(n)
    ELSE IF n - MEMORY_SIZE < NUM_REGISTERS THEN Register(n - MEMORY_SIZE)
    ELSE InvalidOperand(n)

\* impl From<u16> for Operand
OperandFrom(n) ==
    IF n < MEMORY_SIZE THEN Literal(n)
    ELSE IF n - MEMORY_SIZE < NUM_REGISTERS THEN Register(n - MEMORY_SIZE)
    ELSE InvalidOperand(n)

\* Operand::get
Get(a, vm) == IF a.tag = "Literal" THEN a.n ELSE vm.reg[a.n]

\* mutant: a write to a literal operand is dropped without a panic
SetIgnoringLiteral(a, vm, value) ==
    IF a.tag = "Literal" THEN vm ELSE [vm EXCEPT !.reg[a.n] = value]

\* Operand::set
Set(a, vm, value) ==
    IF a.tag = "Literal"
    THEN [vm EXCEPT !.fault = "Invalid write to literal operand"]
    ELSE [vm EXCEPT !.reg[a.n] = value]

\* FromPointer for Operand, (Operand, Operand), (Operand, Operand, Operand):
\* k operands are fetched and classified in order; the first panic ends it
RECURSIVE OperandsFromPointer(_, _, _, _)
OperandsFromPointer(m, addr, k, got) ==
    IF k = 0 THEN [fault |-> "none", args |-> got, addr |-> addr]
    ELSE LET w == PointerNext(m, addr)
         IN  IF w.fault # "none" THEN [fault |-> w.fault, args |-> got, addr |-> addr]
             ELSE LET o == OperandFrom(w.value)
                  IN  IF o.tag = "Invalid operand"
                      THEN [fault |-> "Invalid operand", args |-> got, addr |-> w.addr]
                      ELSE OperandsFromPointer(m, w.addr, k - 1, Append(got, o))

-----------------------------------------------------------------------------
(* vm.rs: Instruction *)

\* mutant: the match has a catch-all arm that decodes Noop
VariantLenient(n) ==
    CASE n = 0 -> "Halt"   [] n = 1 -> "Set"   [] n = 2 -> "Push"  [] n = 3 -> "Pop"
      [] n = 4 -> "Eq"     [] n = 5 -> "Gt"    [] n = 6 -> "Jmp"   [] n = 7 -> "Jt"
      [] n = 8 -> "Jf"     [] n = 9 -> "Add"   [] n = 10 -> "Mult" [] n = 11 -> "Mod"
      [] n = 12 -> "And"   [] n = 13 -> "Or"   [] n = 14 -> "Not"  [] n = 15 -> "RMem"
      [] n = 16 -> "WMem"  [] n = 17 -> "Call" [] n = 18 -> "Ret"  [] n = 19 -> "Out"
      [] n = 20 -> "In"
      [] OTHER -> "Noop"

\* the match of Instruction::from_pointer: the variant of opcode n
Variant(n) ==
    CASE n = 0 -> "Halt"   [] n = 1 -> "Set"   [] n = 2 -> "Push"  [] n = 3 -> "Pop"
      [] n = 4 -> "Eq"     [] n = 5 -> "Gt"    [] n = 6 -> "Jmp"   [] n = 7 -> "Jt"
      [] n = 8 -> "Jf"     [] n = 9 -> "Add"   [] n = 10 -> "Mult" [] n = 11 -> "Mod"
      [] n = 12 -> "And"   [] n = 13 -> "Or"   [] n = 14 -> "Not"  [] n = 15 -> "RMem"
      [] n = 16 -> "WMem"  [] n = 17 -> "Call" [] n = 18 -> "Ret"  [] n = 19 -> "Out"
      [] n = 20 -> "In"    [] n = 21 -> "Noop"
      [] OTHER -> "Invalid instruction"

\* the number of operands each variant carries (the enum Instruction)
Arity(op) ==
    CASE op \in {"Halt", "Ret", "Noop"} -> 0
      [] op \in {"Push", "Pop", "Jmp", "Call", "Out", "In"} -> 1
      [] op \in {"Set", "Jt", "Jf", "Not", "RMem", "WMem"} -> 2
      [] op \in {"Eq", "Gt", "Add", "Mult", "Mod", "And", "Or"} -> 3
      [] OTHER -> 0

\* impl FromPointer for Instruction: the instruction at addr and the address
\* after it, or the panic
InstructionFromPointer(m, addr) ==
    LET w == PointerNext(m, addr)
    IN  IF w.fault # "none"
        THEN [fault |-> w.fault, op |-> "none", args |-> <<>>, addr |-> addr]
        ELSE LET op == Variant(w.value)
             IN  IF op = "Invalid instruction"
                 THEN [fault |-> op, op |-> "none", args |-> <<>>, addr |-> w.addr]
                 ELSE LET o == OperandsFromPointer(m, w.addr, Arity(op), <<>>)
                      IN  [fault |-> o.fault, op |-> op, args |-> o.args, addr |-> o.addr]

-----------------------------------------------------------------------------
(* vm.rs: the arithmetic of Instruction::execute *)

\* b.get(vm) + c.get(vm) in u16, then % 0x8000: a sum above 65535 panics in a
\* build with overflow checks and wraps in a build without
AddVal(x, y) ==
    IF x + y > 65535 /\ overflow_checks
    THEN [fault |-> "attempt to add with overflow", value |-> 0]
    ELSE [fault |-> "none", value |-> ((x + y) % 65536) % 32768]

\* the product of two u16 as its two 16-bit halves, hi * 65536 + lo (the
\* product itself is beyond the integers TLC computes with)
WideMul(x, y) ==
    LET p1  == x * (y % 256)
        p2  == x * (y \div 256)
        low == p1 + (p2 % 256) * 256
    IN  [hi |-> (p2 \div 256) + (low \div 65536), lo |-> low % 65536]

\* mutant: the product is formed in u16, without the casts to u32
MultValNarrow(x, y) ==
    LET p == WideMul(x, y)
    IN  IF p.hi > 0 /\ overflow_checks
        THEN [fault |-> "attempt to multiply with overflow", value |-> 0]
        ELSE [fault |-> "none", value |-> p.lo % 32768]

\* (b.get(vm) as u32 * c.get(vm) as u32) % 0x8000, as u16: the product
\* overflows the u32 when its high half is beyond 16 bits
MultVal(x, y) ==
    LET p == WideMul(x, y)
    IN  IF p.hi > 65535 /\ overflow_checks
        THEN [fault |-> "attempt to multiply with overflow", value |-> 0]
        ELSE [fault |-> "none", value |-> p.lo % 32768]

\* b.get(vm) % c.get(vm): a zero divisor panics in every build
ModVal(x, y) ==
    IF y = 0
    THEN [fault |-> "attempt to calculate the remainder with a divisor of zero", value |-> 0]
    ELSE [fault |-> "none", value |-> x % y]

\* b.get(vm) & c.get(vm)
AndVal(x, y) == BitAnd(x, y, 16)

\* b.get(vm) | c.get(vm)
OrVal(x, y) == BitOr(x, y, 16)

\* mutant: the complement is not masked
NotValUnmasked(x) == BitNot(x, 16)

\* !b.get(vm) & 0x7fff
NotVal(x) == BitAnd(BitNot(x, 16), 32767, 16)

\* ch.get(vm) as u8 as char, printed with "{}": the UTF-8 bytes of the char
OutBytes(x) ==
    LET c == x % 256
    IN  IF c < 128 THEN <<c>> ELSE <<192 + (c \div 64), 128 + (c % 64)>>

-----------------------------------------------------------------------------
(* vm.rs: Instruction::execute, one operator per variant.  vm is the VM as *)
(* VM::next left it: ip is already the address after the instruction.      *)

Raise(vm, f) == [vm EXCEPT !.fault = f]

ExecHalt(vm) == [vm EXCEPT !.halted = TRUE]

ExecSet(a, b, vm) == Set(a, vm, Get(b, vm))

ExecPush(a, vm) == [vm EXCEPT !.stack = Append(vm.stack, Get(a, vm))]

ExecPop(a, vm) ==
    IF Len(vm.stack) > 0
    THEN Set(a, [vm EXCEPT !.stack = SubSeq(vm.stack, 1, Len(vm.stack) - 1)],
             vm.stack[Len(vm.stack)])
    ELSE Raise(vm, "Stack underflow")

ExecEq(a, b, c, vm) == IF Get(b, vm) = Get(c, vm) THEN Set(a, vm, 1) ELSE Set(a, vm, 0)

\* mutant: the comparison is >= instead of >
ExecGtOrEqual(a, b, c, vm) == IF Get(b, vm) >= Get(c, vm) THEN Set(a, vm, 1) ELSE Set(a, vm, 0)

ExecGt(a, b, c, vm) == IF Get(b, vm) > Get(c, vm) THEN Set(a, vm, 1) ELSE Set(a, vm, 0)

ExecJmp(a, vm) == [vm EXCEPT !.ip = Get(a, vm)]

ExecJt(a, b, vm) == IF Get(a, vm) # 0 THEN [vm EXCEPT !.ip = Get(b, vm)] ELSE vm

ExecJf(a, b, vm) == IF Get(a, vm) = 0 THEN [vm EXCEPT !.ip = Get(b, vm)] ELSE vm

ExecAdd(a, b, c, vm) ==
    LET v == AddVal(Get(b, vm), Get(c, vm))
    IN  IF v.fault # "none" THEN Raise(vm, v.fault) ELSE Set(a, vm, v.value)

ExecMult(a, b, c, vm) ==
    LET v == MultVal(Get(b, vm), Get(c, vm))
    IN  IF v.fault # "none" THEN Raise(vm, v.fault) ELSE Set(a, vm, v.value)

ExecMod(a, b, c, vm) ==
    LET v == ModVal(Get(b, vm), Get(c, vm))
    IN  IF v.fault # "none" THEN Raise(vm, v.fault) ELSE Set(a, vm, v.value)

ExecAnd(a, b, c, vm) == Set(a, vm, AndVal(Get(b, vm), Get(c, vm)))

ExecOr(a, b, c, vm) == Set(a, vm, OrVal(Get(b, vm), Get(c, vm)))

ExecNot(a, b, vm) == Set(a, vm, NotVal(Get(b, vm)))

ExecRMem(a, b, vm) ==
    LET w == Index(vm.mem, Get(b, vm))
    IN  IF w.fault # "none" THEN Raise(vm, w.fault) ELSE Set(a, vm, w.value)

\* mutant: the value is taken for the address and the address for the value
ExecWMemSwapped(a, b, vm) ==
    LET w == IndexMut(vm.mem, Get(b, vm), Get(a, vm))
    IN  IF w.fault # "none" THEN Raise(vm, w.fault) ELSE [vm EXCEPT !.mem = w.mem]

ExecWMem(a, b, vm) ==
    LET w == IndexMut(vm.mem, Get(a, vm), Get(b, vm))
    IN  IF w.fault # "none" THEN Raise(vm, w.fault) ELSE [vm EXCEPT !.mem = w.mem]

\* mutant: ip is assigned before it is pushed
ExecCallPushAfterJump(a, vm) ==
    LET jumped == [vm EXCEPT !.ip = Get(a, vm)]
    IN  [jumped EXCEPT !.stack = Append(vm.stack, jumped.ip % 65536)]

ExecCall(a, vm) ==
    LET pushed == [vm EXCEPT !.stack = Append(vm.stack, vm.ip % 65536)]
    IN  [pushed EXCEPT !.ip = Get(a, pushed)]

\* mutant: Ret on an empty stack panics as Pop does
ExecRetUnderflow(vm) ==
    IF Len(vm.stack) > 0
    THEN [vm EXCEPT !.ip = vm.stack[Len(vm.stack)],
                    !.stack = SubSeq(vm.stack, 1, Len(vm.stack) - 1)]
    ELSE Raise(vm, "Stack underflow")

ExecRet(vm) ==
    IF Len(vm.stack) > 0
    THEN [vm EXCEPT !.ip = vm.stack[Len(vm.stack)],
                    !.stack = SubSeq(vm.stack, 1, Len(vm.stack) - 1)]
    ELSE [vm EXCEPT !.halted = TRUE]

ExecOut(ch, vm) == [vm EXCEPT !.output = vm.output \o OutBytes(Get(ch, vm))]

\* what io::stdin().bytes().next() can give: a byte, an error, the end
InputEvents ==
    {[kind |-> "byte", ch |-> ch] : ch \in {10, 65, 255}}
        \cup {[kind |-> "error", ch |-> 0], [kind |-> "closed", ch |-> 0]}

ExecIn(a, ev, vm) ==
    CASE ev.kind = "byte" -> Set(a, vm, ev.ch)
      [] ev.kind = "error" -> Raise(vm, "Error reading input")
      [] OTHER -> Raise(vm, "Input channel closed")

ExecNoop(vm) == vm

-----------------------------------------------------------------------------
(* The memory images the VM is constructed with *)

\* instructions (and two data words) the generated images are made of;
\* 32768 and 32769 are the operands R0 and R1
Pool ==
    { <<1, 32768, 32767>>, <<1, 32769, 10>>, <<2, 32768>>, <<3, 32769>>,
      <<4, 32768, 32768, 32769>>, <<5, 32769, 32768, 9>>,
      <<6, 32768>>, <<7, 32768, 32766>>, <<8, 32768, 32767>>,
      <<9, 32768, 32767, 10>>, <<9, 32768, 32768, 32768>>,
      <<10, 32768, 32768, 32768>>, <<11, 32768, 32768, 32769>>,
      <<12, 32768, 32768, 32769>>, <<13, 32769, 32768, 21845>>,
      <<14, 32768, 32768>>, <<15, 32768, 1>>, <<16, 32768, 32769>>,
      <<17, 2>>, <<18>>, <<19, 32768>>, <<20, 32768>>, <<21>>,
      <<22>>, <<2, 32776>> }

\* the word sequences made of at most k blocks of the pool
RECURSIVE Programs(_)
Programs(k) ==
    IF k = 0 THEN {<<>>}
    ELSE LET shorter == Programs(k - 1)
         IN  shorter \cup {p \o b : p \in shorter, b \in Pool}

\* a word sequence as the byte stream Memory::load reads: low byte first
RECURSIVE Bytes(_)
Bytes(words) ==
    IF Len(words) = 0 THEN <<>>
    ELSE <<words[1] % 256, words[1] \div 256>> \o Bytes(SubSeq(words, 2, Len(words)))

\* the words a longer byte stream holds from address addr on
RECURSIVE Place(_, _, _)
Place(m, addr, words) ==
    IF Len(words) = 0 THEN m
    ELSE Place(Store(m, addr, words[1]), addr + 1, SubSeq(words, 2, Len(words)))

\* images that reach the last addresses of the memory: a jump or a call to
\* 32766 or 32767 and two words there
FarImages ==
    { Place(Load(Bytes(p)).mem, LAST_ADDRESS - 1, t) :
        p \in { <<6, 32766>>, <<6, 32767>>, <<17, 32766>>, <<17, 32767>> },
        t \in { <<17, 0>>, <<0, 21>>, <<21, 2>>, <<21, 18>>, <<1, 32768>>, <<21, 65535>> } }

\* the programs of the tests and of the specification's scenarios
ScenarioImages ==
    { Load(b).mem : b \in
        { Bytes(<<0>>), Bytes(<<19, 65, 21, 0>>),
          Bytes(<<9, 32768, 32769, 4, 19, 32768>>),
          <<18, 52, 86, 120, 154, 188>>,
          Bytes(<<1, 32768, 32767, 1, 32769, 10, 9, 32768, 32768, 32769, 19, 32768>>),
          Bytes(<<15, 32768, 7, 9, 32769, 32768, 32768, 40000>>),
          Bytes(<<15, 32768, 1, 15, 32769, 32768>>),
          Bytes(<<15, 32768, 1, 16, 32768, 32769>>),
          Bytes(<<15, 32768, 1, 14, 32769, 32768>>),
          Bytes(<<10, 32768, 30000, 30000, 19, 32768>>),
          Bytes(<<15, 32768, 7, 10, 32768, 32768, 32768, 65535>>),
          Bytes(<<14, 32768, 0, 14, 32769, 32768, 14, 32770, 21845, 14, 32771, 32770>>),
          Bytes(<<1, 5, 6>>), Bytes(<<2, 7, 3, 4>>), Bytes(<<19, 200>>),
          Bytes(<<17, 4, 19, 65, 2, 7, 3, 32768, 18>>),
          Bytes(<<2, 32775>>), Bytes(<<2, 65535>>), Bytes(<<1, 32775, 32767, 2, 0>>),
          Bytes(<<5, 32768, 7, 3, 5, 32769, 3, 7, 4, 32770, 5, 6, 4, 32768, 32768, 1>>),
          Bytes(<<3, 4>>), Bytes(<<4, 5, 1, 1>>), Bytes(<<5, 5, 2, 1>>),
          Bytes(<<9, 5, 1, 1>>), Bytes(<<10, 5, 2, 2>>), Bytes(<<11, 5, 7, 2>>),
          Bytes(<<11, 5, 7, 0>>), Bytes(<<12, 5, 1, 1>>), Bytes(<<13, 5, 1, 1>>),
          Bytes(<<14, 5, 1>>), Bytes(<<15, 5, 0>>), Bytes(<<20, 5>>),
          Bytes(<<15, 32768, 1, 15, 5, 32768>>),
          Bytes(<<15, 32768, 1, 9, 5, 32768, 32768>>),
          Bytes(<<11, 32768, 7, 0>>), Bytes(<<11, 32768, 7, 3>>),
          Bytes(<<16, 3, 19, 0, 65>>), Bytes(<<20, 32768, 19, 32768>>),
          Bytes(<<6, 2, 0>>), Bytes(<<7, 1, 3, 0>>) } }

Images == {Load(Bytes(p)).mem : p \in Programs(MaxInstrs)} \cup FarImages \cup ScenarioImages

-----------------------------------------------------------------------------
(* vm.rs: VM *)

\* VM::new, for a memory and a build of the program
Init ==
    /\ stream = <<>>
    /\ image \in Images
    /\ mem = image
    /\ reg = [r \in 0 .. NUM_REGISTERS - 1 |-> 0]
    /\ stack = <<>>
    /\ ip = 0
    /\ halted = FALSE
    /\ output = <<>>
    /\ fault = "none"
    /\ trace = [addr |-> 0, op |-> "none", args |-> <<>>]
    /\ prev = [mem |-> mem, reg |-> reg, stack |-> stack, ip |-> ip, halted |-> halted,
               output |-> output, fault |-> fault]
    /\ steps = 0
    /\ pc = "run"
    /\ overflow_checks \in BOOLEAN

\* the VM as a value
VM ==
    [mem |-> mem, reg |-> reg, stack |-> stack, ip |-> ip, halted |-> halted,
     output |-> output, fault |-> fault]

\* mutant: step() does not look at halted
RunningAlways == TRUE

\* step(): if self.halted { return }
Running == ~halted

\* VM::next: the instruction at ip
Fetched == InstructionFromPointer(mem, ip)

\* mutant: ip is left at the instruction that was fetched
AfterNextStale == VM

\* VM::next: self.ip = ptr.addr()
AfterNext == [VM EXCEPT !.ip = Fetched.addr]

\* step() goes on to fetch: the process has not panicked, the VM is not halted
CanStep == fault = "none" /\ Running /\ steps < MaxSteps

\* step() decoded an instruction of variant op
Decoded(op) == CanStep /\ Fetched.fault = "none" /\ Fetched.op = op

\* the VM after execute, with the instruction that debug! logged
Becomes(vm) ==
    /\ mem' = vm.mem
    /\ reg' = vm.reg
    /\ stack' = vm.stack
    /\ ip' = vm.ip
    /\ halted' = vm.halted
    /\ output' = vm.output
    /\ fault' = vm.fault
    /\ trace' = [addr |-> ip, op |-> Fetched.op, args |-> Fetched.args]
    /\ prev' = VM
    /\ steps' = steps + 1
    /\ UNCHANGED <<stream, image, pc, overflow_checks>>

\* step(): the fetch panics (out of bounds, invalid instruction, invalid
\* operand) before self.ip is assigned
StepPanicInNext ==
    /\ CanStep
    /\ Fetched.fault # "none"
    /\ fault' = Fetched.fault
    /\ trace' = [addr |-> ip, op |-> "none", args |-> <<>>]
    /\ prev' = VM
    /\ steps' = steps + 1
    /\ UNCHANGED <<stream, image, mem, reg, stack, ip, halted, output, pc, overflow_checks>>

StepHalt == Decoded("Halt") /\ Becomes(ExecHalt(AfterNext))

StepSet == Decoded("Set") /\ Becomes(ExecSet(Fetched.args[1], Fetched.args[2], AfterNext))

StepPush == Decoded("Push") /\ Becomes(ExecPush(Fetched.args[1], AfterNext))

StepPop == Decoded("Pop") /\ Becomes(ExecPop(Fetched.args[1], AfterNext))

StepEq ==
    Decoded("Eq") /\ Becomes(ExecEq(Fetched.args[1], Fetched.args[2], Fetched.args[3], AfterNext))

StepGt ==
    Decoded("Gt") /\ Becomes(ExecGt(Fetched.args[1], Fetched.args[2], Fetched.args[3], AfterNext))

StepJmp == Decoded("Jmp") /\ Becomes(ExecJmp(Fetched.args[1], AfterNext))

StepJt == Decoded("Jt") /\ Becomes(ExecJt(Fetched.args[1], Fetched.args[2], AfterNext))

StepJf == Decoded("Jf") /\ Becomes(ExecJf(Fetched.args[1], Fetched.args[2], AfterNext))

StepAdd ==
    Decoded("Add") /\ Becomes(ExecAdd(Fetched.args[1], Fetched.args[2], Fetched.args[3], AfterNext))

StepMult ==
    Decoded("Mult") /\ Becomes(ExecMult(Fetched.args[1], Fetched.args[2], Fetched.args[3], AfterNext))

StepMod ==
    Decoded("Mod") /\ Becomes(ExecMod(Fetched.args[1], Fetched.args[2], Fetched.args[3], AfterNext))

StepAnd ==
    Decoded("And") /\ Becomes(ExecAnd(Fetched.args[1], Fetched.args[2], Fetched.args[3], AfterNext))

StepOr ==
    Decoded("Or") /\ Becomes(ExecOr(Fetched.args[1], Fetched.args[2], Fetched.args[3], AfterNext))

StepNot == Decoded("Not") /\ Becomes(ExecNot(Fetched.args[1], Fetched.args[2], AfterNext))

StepRMem == Decoded("RMem") /\ Becomes(ExecRMem(Fetched.args[1], Fetched.args[2], AfterNext))

StepWMem == Decoded("WMem") /\ Becomes(ExecWMem(Fetched.args[1], Fetched.args[2], AfterNext))

StepCall == Decoded("Call") /\ Becomes(ExecCall(Fetched.args[1], AfterNext))

StepRet == Decoded("Ret") /\ Becomes(ExecRet(AfterNext))

StepOut == Decoded("Out") /\ Becomes(ExecOut(Fetched.args[1], AfterNext))

StepIn == Decoded("In") /\ \E ev \in InputEvents : Becomes(ExecIn(Fetched.args[1], ev, AfterNext))

StepNoop == Decoded("Noop") /\ Becomes(ExecNoop(AfterNext))

\* step() on a halted VM returns at once
StepHalted == fault = "none" /\ ~Running /\ UNCHANGED vars

\* mutant: the loop of run() ends while the VM is not halted
RunReturnWhileRunning ==
    /\ pc = "run"
    /\ fault = "none"
    /\ ~halted
    /\ pc' = "returned"
    /\ UNCHANGED <<stream, image, mem, reg, stack, ip, halted, output, fault, trace, prev,
                   steps,
                   overflow_checks>>

\* run(): the loop ends when halted is true
RunReturn ==
    /\ pc = "run"
    /\ fault = "none"
    /\ halted
    /\ pc' = "returned"
    /\ UNCHANGED <<stream, image, mem, reg, stack, ip, halted, output, fault, trace, prev,
                   steps,
                   overflow_checks>>

Next ==
    \/ StepPanicInNext
    \/ StepHalt \/ StepSet \/ StepPush \/ StepPop \/ StepEq \/ StepGt
    \/ StepJmp \/ StepJt \/ StepJf
    \/ StepAdd \/ StepMult \/ StepMod \/ StepAnd \/ StepOr \/ StepNot
    \/ StepRMem \/ StepWMem \/ StepCall \/ StepRet \/ StepOut \/ StepIn \/ StepNoop
    \/ StepHalted
    \/ RunReturn

Spec == Init /\ [][Next]_vars

-----------------------------------------------------------------------------
(* memory.rs: Memory::load on a byte stream *)

\* the byte values of a generated stream
StreamBytes == {0, 1, 128, 255}

RECURSIVE StreamsOfLen(_)
StreamsOfLen(k) ==
    IF k = 0 THEN {<<>>}
    ELSE {Append(b, x) : b \in StreamsOfLen(k - 1), x \in StreamBytes}

\* the stream of tests::loading, alone and followed by one more byte
LoadingTest == <<18, 52, 86, 120, 154, 188>>

Streams ==
    UNION {StreamsOfLen(k) : k \in 0 .. MaxBytes}
        \cup {LoadingTest, Append(LoadingTest, 0), Append(LoadingTest, 255)}

\* Memory::load is called on a reader: let mut mem = Memory::new()
InitLoad ==
    /\ stream \in Streams
    /\ image = MemoryNew
    /\ mem = MemoryNew
    /\ reg = [r \in 0 .. NUM_REGISTERS - 1 |-> 0]
    /\ stack = <<>>
    /\ ip = 0
    /\ halted = FALSE
    /\ output = <<>>
    /\ fault = "none"
    /\ trace = [addr |-> 0, op |-> "none", args |-> <<>>]
    /\ prev = [mem |-> mem, reg |-> reg, stack |-> stack, ip |-> ip, halted |-> halted,
               output |-> output, fault |-> fault]
    /\ steps = 0
    /\ pc = "load"
    /\ overflow_checks \in BOOLEAN

\* Memory::load runs to its end: the memory it returns, or its panic
LoadStream ==
    /\ pc = "load"
    /\ LET loaded == Load(stream)
       IN  /\ fault' = loaded.fault
           /\ mem' = loaded.mem
           /\ image' = loaded.mem
    /\ pc' = "loaded"
    /\ UNCHANGED <<stream, reg, stack, ip, halted, output, trace, prev, steps, overflow_checks>>

NextLoad == LoadStream

SpecLoad == InitLoad /\ [][NextLoad]_vars

-----------------------------------------------------------------------------
(* Properties *)

\* the last step() decoded an instruction of variant op and executed it
Executed(op) == steps > 0 /\ trace.op = op

\* the value operand i of the last instruction resolved to when it executed
Resolved(i) == Get(trace.args[i], prev)

\* the last instruction's first operand is a register
WritesRegister == trace.args[1].tag = "Register"

Word15 == 0 .. 32767

\* C1: each of the 8 registers and every entry of the stack holds a value
\* in 0..32767, in every state reachable by step() calls.
C1_RegistersAndStackAre15Bit ==
    /\ \A r \in 0 .. NUM_REGISTERS - 1 : reg[r] \in Word15
    /\ \A i \in 1 .. Len(stack) : stack[i] \in Word15

\* C2 as stated: the instruction pointer is an address in 0..32767 in every
\* reachable state.
C2_IpIsAnAddress == ip \in 0 .. LAST_ADDRESS

\* C2 as amended: ip is a value in 0..65535; every instruction that is
\* decoded was fetched at an address in 0..32767, and a step that starts with
\* ip beyond 32767 panics on the read and leaves ip where it was.
C2_IpIs16BitAndFetchesInBounds ==
    /\ ip \in U16
    /\ (steps > 0 /\ trace.op # "none") => trace.addr \in 0 .. LAST_ADDRESS
    /\ (steps > 0 /\ prev.ip > LAST_ADDRESS) =>
           /\ fault = "Read memory access out of bounds"
           /\ trace.op = "none"
           /\ ip = prev.ip

\* an instruction whose last word lies at 32767 was executed: ip is 32768
C2_Witness ==
    /\ Executed("Noop")
    /\ trace.addr = LAST_ADDRESS
    /\ ip = MEMORY_SIZE
    /\ fault = "none"

\* the last step() read its opcode in bounds and went on to read an operand
\* word beyond the last address (the operand words before it were valid)
OperandFetchBeyond ==
    /\ steps > 0
    /\ prev.ip <= LAST_ADDRESS
    /\ Variant(Cell(prev.mem, prev.ip)) # "Invalid instruction"
    /\ prev.ip + Arity(Variant(Cell(prev.mem, prev.ip))) > LAST_ADDRESS
    /\ \A j \in 1 .. (LAST_ADDRESS - prev.ip) :
           Cell(prev.mem, prev.ip + j) < MEMORY_SIZE + NUM_REGISTERS

\* C3: a memory access of a step (opcode fetch, operand fetch, RMem read,
\* WMem write) at an address beyond 32767 aborts the step with the
\* out-of-bounds panic; nothing is read or written at a wrapped or clamped
\* address: memory, and the register RMem would have written, are unchanged.
C3_OutOfBoundsAccessAborts ==
    /\ (steps > 0 /\ prev.ip > LAST_ADDRESS) =>
           /\ fault = "Read memory access out of bounds"
           /\ trace.op = "none"
           /\ mem = prev.mem /\ reg = prev.reg /\ stack = prev.stack
    /\ OperandFetchBeyond =>
           /\ fault = "Read memory access out of bounds"
           /\ trace.op = "none"
           /\ mem = prev.mem /\ reg = prev.reg /\ stack = prev.stack
    /\ (Executed("RMem") /\ Resolved(2) > LAST_ADDRESS) =>
           /\ fault = "Read memory access out of bounds"
           /\ mem = prev.mem /\ reg = prev.reg
    /\ (Executed("WMem") /\ Resolved(1) > LAST_ADDRESS) =>
           /\ fault = "Write memory access out of bounds"
           /\ mem = prev.mem /\ reg = prev.reg

\* WMem executed with a target address beyond 32767
C3_Witness ==
    /\ Executed("WMem")
    /\ Resolved(1) > LAST_ADDRESS
    /\ fault = "Write memory access out of bounds"

\* C4: halted is terminal: once true it stays true, and a step() on a halted
\* VM changes nothing: registers, stack, ip, memory and output are unchanged
\* and no instruction is fetched.
C4_HaltedIsTerminal ==
    [][halted => (halted' /\ UNCHANGED <<reg, stack, ip, mem, output, fault, trace, steps>>)]_vars

\* a halted VM on which step() can be called
C4_Witness == halted /\ Executed("Halt") /\ ENABLED StepHalted

\* C5: the VM starts running with ip = 0; halted becomes true only by Halt or
\* by Ret on an empty stack; run() returns only when halted; for an image
\* whose word 0 is 0, run() returns after exactly one step with no output,
\* an empty stack and every register 0.
C5_HaltAndRun ==
    /\ steps = 0 => (ip = 0 /\ ~halted /\ pc = "run")
    /\ halted =>
           /\ steps > 0
           /\ ~prev.halted
           /\ trace.op = "Halt" \/ (trace.op = "Ret" /\ prev.stack = <<>>)
    /\ pc = "returned" => halted
    /\ (pc = "returned" /\ Cell(image, 0) = 0) =>
           /\ steps = 1
           /\ output = <<>>
           /\ stack = <<>>
           /\ \A r \in 0 .. NUM_REGISTERS - 1 : reg[r] = 0

\* run() has returned for an image that starts with Halt
C5_Witness == pc = "returned" /\ Cell(image, 0) = 0 /\ Executed("Halt")

\* C6: Call a at address p pushes p + 2 and sets ip to get(a); a Ret that
\* finds an entry on top of the stack sets ip to it and removes it, so a Ret
\* that finds the entry Call pushed restores ip to p + 2 and the stack to
\* what it was before the Call.
C6_CallRetRoundTrip ==
    /\ Executed("Call") =>
           /\ fault = "none"
           /\ stack = Append(prev.stack, trace.addr + 2)
           /\ ip = Resolved(1)
    /\ (Executed("Ret") /\ Len(prev.stack) > 0) =>
           /\ fault = "none" /\ ~halted
           /\ ip = prev.stack[Len(prev.stack)]
           /\ Append(stack, ip) = prev.stack

\* Call 4 at address 0, then Push 7, Pop R0 and Ret at 4..8: the Ret has
\* set ip to 2 and the stack is empty again
C6_Witness ==
    /\ Executed("Ret")
    /\ Cell(image, 0) = 17 /\ Cell(image, 1) = 4
    /\ trace.addr = 8
    /\ reg[0] = 7
    /\ ip = 2
    /\ stack = <<>>
    /\ ~halted

\* C7: Ret on an empty stack is no error: it sets halted and changes no
\* register and no memory cell; Pop on an empty stack is the stack underflow
\* panic, and no register is written.
C7_EmptyStackRetAndPop ==
    /\ (Executed("Ret") /\ prev.stack = <<>>) =>
           /\ fault = "none"
           /\ halted
           /\ reg = prev.reg /\ mem = prev.mem
    /\ (Executed("Pop") /\ prev.stack = <<>>) =>
           /\ fault = "Stack underflow"
           /\ reg = prev.reg

\* Ret was executed on an empty stack and the VM halted without a panic
C7_Witness == Executed("Ret") /\ prev.stack = <<>> /\ halted /\ fault = "none"

\* C8: Add a,b,c with a a register stores (get(b) + get(c)) mod 32768 in a
\* for every pair of values the operands resolve to in a reachable state,
\* and the 16-bit sum does not overflow.
C8_AddStoresSumWithoutOverflow ==
    (Executed("Add") /\ WritesRegister) =>
        /\ Resolved(2) + Resolved(3) <= 65535
        /\ fault = "none"
        /\ reg[trace.args[1].n] = (Resolved(2) + Resolved(3)) % 32768

\* C9: Mult a,b,c with a a register stores (get(b) * get(c)) mod 32768 in a;
\* the product fits the 32-bit intermediate for any two 16-bit operands, so
\* the instruction never panics; 30000 * 30000 gives 900000000 mod 32768.
C9_MultStoresProduct ==
    (Executed("Mult") /\ WritesRegister) =>
        /\ Resolved(2) \in U16 /\ Resolved(3) \in U16
        /\ fault = "none"
        /\ reg[trace.args[1].n] = ((Resolved(2) % 32768) * (Resolved(3) % 32768)) % 32768
        /\ (Resolved(2) = 30000 /\ Resolved(3) = 30000) =>
               reg[trace.args[1].n] = 900000000 % 32768

\* Mult R0, 30000, 30000 was executed
C9_Witness ==
    /\ Executed("Mult") /\ WritesRegister
    /\ Resolved(2) = 30000 /\ Resolved(3) = 30000
    /\ reg[0] = 26880

\* C10: Not a,b with a a register stores the complement of get(b) masked to
\* 15 bits: the result is in 0..32767; for x in 0..32767 it is 32767 - x
\* (0 gives 0x7fff, 0x7fff gives 0), and Not of the result is x again.
C10_NotIsMaskedComplement ==
    (Executed("Not") /\ WritesRegister) =>
        LET x == Resolved(2)
            r == reg[trace.args[1].n]
        IN  /\ fault = "none"
            /\ r \in Word15
            /\ x \in Word15 =>
                   /\ r = 32767 - x
                   /\ ExecNot(trace.args[1], trace.args[1], VM).reg[trace.args[1].n] = x

\* Not was executed on 0x7fff, the result of a Not of 0, and gave 0 again
C10_Witness ==
    /\ Executed("Not") /\ WritesRegister
    /\ Resolved(2) = 32767
    /\ prev.reg[0] = 32767
    /\ reg[1] = 0

\* C11: after Eq a,b,c or Gt a,b,c with a a register, a holds exactly 1 when
\* get(b) = get(c) (Eq) or get(b) > get(c) (Gt), taken on the state before
\* the write, and exactly 0 otherwise.
C11_EqGtStoreZeroOrOne ==
    /\ (Executed("Eq") /\ WritesRegister) =>
           /\ fault = "none"
           /\ reg[trace.args[1].n] = IF Resolved(2) = Resolved(3) THEN 1 ELSE 0
    /\ (Executed("Gt") /\ WritesRegister) =>
           /\ fault = "none"
           /\ reg[trace.args[1].n] = IF Resolved(2) > Resolved(3) THEN 1 ELSE 0

\* Eq R0, R0, 1 overwrote its own operand: R0 was 1 and is 1 for the equality
C11_Witness ==
    /\ Executed("Eq") /\ WritesRegister
    /\ trace.args[2] = trace.args[1]
    /\ prev.reg[0] = 1 /\ Resolved(3) = 1
    /\ reg[0] = 1 /\ reg[1] = 0 /\ reg[2] = 0

\* the raw operand word i of the instruction the last step() read
RawOperand(i) == Cell(prev.mem, prev.ip + i)

\* the last step() read its opcode and the operand words 1 .. i
ReadOperand(i) ==
    /\ steps > 0
    /\ prev.ip + i <= LAST_ADDRESS
    /\ Variant(Cell(prev.mem, prev.ip)) # "Invalid instruction"
    /\ i <= Arity(Variant(Cell(prev.mem, prev.ip)))
    /\ \A j \in 1 .. i - 1 : RawOperand(j) < MEMORY_SIZE + NUM_REGISTERS

\* C12: every operand word read is classified by the three-way partition:
\* 0..32767 is Literal(v), 32768..32775 is Register(v - 32768), and
\* 32776..65535 is the invalid operand panic, which yields no operand.  (A
\* valid operand is seen in the decoded instruction; where none was decoded,
\* a later operand word was invalid or beyond the memory.)
C12_OperandClassification ==
    \A i \in 1 .. 3 :
        ReadOperand(i) =>
            LET v == RawOperand(i)
            IN  /\ v \in U16
                /\ (v \in 0 .. 32767 /\ trace.op # "none") =>
                       /\ Len(trace.args) >= i
                       /\ trace.args[i] = [tag |-> "Literal", n |-> v]
                /\ (v \in 32768 .. 32775 /\ trace.op # "none") =>
                       /\ Len(trace.args) >= i
                       /\ trace.args[i] = [tag |-> "Register", n |-> v - 32768]
                /\ (v \in 0 .. 32775 /\ trace.op = "none") =>
                       fault \in {"Invalid operand", "Read memory access out of bounds"}
                /\ v \in 32776 .. 65535 =>
                       /\ fault = "Invalid operand"
                       /\ trace.op = "none"
                       /\ trace.args = <<>>

\* Set R7, 32767 was decoded: the words 32775 and 32767 are the last
\* register and the last literal
C12_Witness ==
    /\ Executed("Set")
    /\ RawOperand(1) = 32775 /\ RawOperand(2) = 32767
    /\ trace.args = <<[tag |-> "Register", n |-> 7], [tag |-> "Literal", n |-> 32767]>>
    /\ reg[7] = 32767

\* C13: a step whose leading word is outside 0..21 is the invalid
\* instruction panic: no operand word is read or classified (the panic is
\* not an operand's or an out-of-bounds one), nothing is executed, and
\* registers, stack, memory, halted and output are as before the step.
C13_InvalidOpcodeAborts ==
    (steps > 0 /\ prev.ip <= LAST_ADDRESS /\ Cell(prev.mem, prev.ip) \notin 0 .. 21) =>
        /\ fault = "Invalid instruction"
        /\ trace.op = "none" /\ trace.args = <<>>
        /\ reg = prev.reg /\ stack = prev.stack /\ mem = prev.mem
        /\ halted = prev.halted /\ output = prev.output

\* an invalid opcode at the last address: an operand read would have been
\* out of bounds
C13_Witness ==
    /\ steps > 0
    /\ prev.ip = LAST_ADDRESS
    /\ Cell(prev.mem, prev.ip) = 65535
    /\ fault = "Invalid instruction"

\* the instructions that write their first operand
Writers == {"Set", "Pop", "Eq", "Gt", "Add", "Mult", "Mod", "And", "Or", "Not", "RMem", "In"}

\* the last step() executed a writing instruction whose first operand is a literal
WroteLiteral == steps > 0 /\ trace.op \in Writers /\ trace.args[1].tag = "Literal"

\* C14 as stated: a writing instruction whose first operand is a literal
\* aborts with the invalid write panic, and no register and no memory cell
\* is changed.
C14_LiteralWriteIsInvalidWrite ==
    WroteLiteral =>
        /\ fault = "Invalid write to literal operand"
        /\ reg = prev.reg /\ mem = prev.mem

\* the panic that precedes the write of the last instruction, or "none"
PanicBeforeWrite ==
    CASE trace.op = "Pop" /\ prev.stack = <<>> -> "Stack underflow"
      [] trace.op = "RMem" /\ Resolved(2) > LAST_ADDRESS -> "Read memory access out of bounds"
      [] trace.op = "Mod" /\ Resolved(3) = 0 ->
             "attempt to calculate the remainder with a divisor of zero"
      [] trace.op = "Add" /\ Resolved(2) + Resolved(3) > 65535 /\ overflow_checks ->
             "attempt to add with overflow"
      [] trace.op = "In" /\ fault \in {"Error reading input", "Input channel closed"} -> fault
      [] OTHER -> "none"

\* C14 as amended: a writing instruction whose first operand is a literal
\* always aborts, and no register and no memory cell is changed; the panic is
\* the invalid write one unless the instruction panics before it writes
\* (Pop on an empty stack, RMem out of bounds, Mod by zero, an overflowing
\* Add, In without a byte), and then it is that panic.
C14_LiteralWriteAborts ==
    WroteLiteral =>
        /\ reg = prev.reg /\ mem = prev.mem
        /\ fault = IF PanicBeforeWrite = "none"
                   THEN "Invalid write to literal operand"
                   ELSE PanicBeforeWrite

\* Pop with a literal operand found an entry on the stack: the entry is
\* gone and the write panicked
C14_Witness ==
    /\ WroteLiteral
    /\ trace.op = "Pop"
    /\ prev.stack = <<7>> /\ stack = <<>>
    /\ fault = "Invalid write to literal operand"

\* C15: each executed Out a appends exactly one byte, get(a) mod 256, to the
\* output, for every operand value; no other instruction emits output; the
\* program [19, 65, 21, 0] emits the one byte 0x41, executes a no-op and
\* halts.
C15_OutAppendsLowByte ==
    /\ Executed("Out") => output = Append(prev.output, Resolved(1) % 256)
    /\ (steps > 0 /\ trace.op # "Out") => output = prev.output
    /\ (/\ Cell(image, 0) = 19 /\ Cell(image, 1) = 65
        /\ Cell(image, 2) = 21 /\ Cell(image, 3) = 0
        /\ halted) => output = <<65>>

\* the word two bytes of the stream make, low byte first
WordOf(b, i) == b[2 * i + 1] + 256 * b[2 * i + 2]

\* C16: for a byte stream b of even length 2k, Memory::load leaves cell i
\* equal to b[2i] + 256 * b[2i+1] (bytes counted from 0) for every i < k and
\* every cell from address k on equal to 0; the bytes 0x12 0x34 0x56 0x78
\* 0x9a 0xbc give 0x3412, 0x7856, 0xbc9a at 0..2 and 0 at 3.
C16_LoadIsLittleEndian ==
    (pc = "loaded" /\ Len(stream) % 2 = 0) =>
        LET k == Len(stream) \div 2
        IN  /\ fault = "none"
            /\ \A i \in 0 .. k - 1 : Cell(mem, i) = WordOf(stream, i)
            /\ \A a \in DOMAIN mem : a >= k => mem[a] = 0
            /\ Cell(mem, k) = 0 /\ Cell(mem, LAST_ADDRESS) = 0
            /\ stream = LoadingTest =>
                   /\ Cell(mem, 0) = 13330 /\ Cell(mem, 1) = 30806
                   /\ Cell(mem, 2) = 48282 /\ Cell(mem, 3) = 0

\* the stream of tests::loading was loaded
C16_Witness ==
    /\ pc = "loaded" /\ stream = LoadingTest
    /\ Cell(mem, 0) = 13330 /\ Cell(mem, 2) = 48282 /\ Cell(mem, 3) = 0

\* C17: a trailing unpaired byte is dropped: loading an even-length stream
\* followed by one more byte raises no error and gives the memory that
\* loading the even-length stream alone gives.
C17_TrailingByteDropped ==
    (pc = "loaded" /\ Len(stream) % 2 = 1) =>
        LET b == SubSeq(stream, 1, Len(stream) - 1)
        IN  /\ fault = "none"
            /\ mem = Load(b).mem
            /\ \A i \in 0 .. Len(b) \div 2 : Cell(mem, i) =
                   IF i < Len(b) \div 2 THEN WordOf(b, i) ELSE 0

\* a stream of one pair and a non-zero last byte was loaded
C17_Witness ==
    /\ pc = "loaded" /\ Len(stream) = 3 /\ stream[3] = 255
    /\ Cell(mem, 0) = WordOf(stream, 0) /\ Cell(mem, 0) # 0
    /\ Cell(mem, 1) = 0

\* the address after the instruction the last step() fetched
FallThrough == trace.addr + 1 + Arity(trace.op)

\* the last step() executed a jump that is taken whatever the stack holds
JumpTaken ==
    \/ trace.op \in {"Jmp", "Call"}
    \/ trace.op = "Jt" /\ Resolved(1) # 0
    \/ trace.op = "Jf" /\ Resolved(1) = 0

\* the operand a taken jump takes its target from
JumpTarget == IF trace.op \in {"Jmp", "Call"} THEN Resolved(1) ELSE Resolved(2)

\* C18: ip is set to the address after the fetched instruction before the
\* instruction executes: after a step of any instruction other than Jmp,
\* Call, Ret, a taken Jt or a taken Jf, ip is p + 1 + arity for the
\* instruction fetched at p; after Jmp, Call, a taken Jt or a taken Jf, ip
\* is the resolved target operand in place of it (the two are one address
\* when the target is the address after the jump); the address Call pushes
\* is the ip the fetch left.
C18_IpAfterStep ==
    (steps > 0 /\ trace.op # "none") =>
        /\ prev.ip = trace.addr
        /\ (~JumpTaken /\ trace.op # "Ret") => ip = FallThrough
        /\ JumpTaken => ip = JumpTarget
        /\ (JumpTaken /\ JumpTarget # FallThrough) => ip # FallThrough
        /\ (trace.op = "Call") => stack[Len(stack)] = FallThrough

\* a Jt whose condition was non-zero went to a target that is not the
\* address after it
C18_Witness ==
    /\ Executed("Jt")
    /\ Resolved(1) # 0
    /\ ip = Resolved(2)
    /\ ip # FallThrough

\* the panics of the fault taxonomy a step can end with
TaxonomyFaults ==
    {"Read memory access out of bounds", "Write memory access out of bounds",
     "Invalid operand", "Invalid instruction", "Stack underflow",
     "Invalid write to literal operand", "Error reading input", "Input channel closed"}

\* C19: a step aborts only for a fault of the taxonomy (memory access out of
\* bounds, invalid operand, invalid opcode, stack underflow on Pop, write to
\* a literal operand, input closed or in error on In), with stack underflow
\* only on Pop and the input faults only on In; Add, Mult, Mod, And, Or and
\* Not with a register destination always complete and write their result.
C19_FaultsAreOfTheTaxonomy ==
    /\ fault \in TaxonomyFaults \cup {"none"}
    /\ fault = "Stack underflow" => trace.op = "Pop"
    /\ fault \in {"Error reading input", "Input channel closed"} => trace.op = "In"
    /\ (/\ steps > 0
        /\ trace.op \in {"Add", "Mult", "Mod", "And", "Or", "Not"}
        /\ WritesRegister) => fault = "none"

\* the addresses at which the memory differs from what the last step() found
ChangedCells == {a \in (DOMAIN mem) \cup (DOMAIN prev.mem) : Cell(mem, a) # Cell(prev.mem, a)}

\* C20: after loading, memory is changed only by WMem: a step of any other
\* instruction leaves every cell unchanged; a step of WMem a,b changes at
\* most the cell at address get(a), setting it to get(b), and leaves every
\* other cell, every register and the stack unchanged.
C20_OnlyWMemWritesMemory ==
    /\ steps = 0 => mem = image
    /\ (steps > 0 /\ trace.op # "WMem") => (mem = prev.mem /\ ChangedCells = {})
    /\ Executed("WMem") =>
           /\ ChangedCells \subseteq {Resolved(1)}
           /\ fault = "none" => Cell(mem, Resolved(1)) = Resolved(2)
           /\ fault # "none" => mem = prev.mem
           /\ reg = prev.reg
           /\ stack = prev.stack

\* WMem 3, 19 changed the cell at 3 from 0 to 19 and no other
C20_Witness ==
    /\ Executed("WMem")
    /\ fault = "none"
    /\ Resolved(1) = 3 /\ Resolved(2) = 19
    /\ Cell(prev.mem, 3) = 0 /\ Cell(mem, 3) = 19
    /\ ChangedCells = {3}

====
